---- MODULE Spec2Model ----
(***************************************************************************)
(* Model of termux-monitor's decision cycle (core.check_and_restart_wifi)  *)
(* and of the collaborators it calls: the device-info and notification     *)
(* readers, the operator/network predicates, the geo-IP resolver with its  *)
(* connectivity probe, and the Wi-Fi remediator.                           *)
(*                                                                         *)
(* Python values are tagged records; Python strings are sequences of       *)
(* one-character strings so that lower(), `in` and truthiness are computed *)
(* as the interpreter computes them.                                       *)
(***************************************************************************)
EXTENDS Integers, Sequences, FiniteSets, TLC

\* ------------------------------------------------------------------ bounds
\* longest notification list the notification command is made to print
MaxNotifs == 2
\* largest value of GET_COUNTRY_MAX_RETRIES / max_retries that is explored
MaxRetriesBound == 3
\* largest initial backoff delay (backoff_factor) that is explored
MaxBackoffFactor == 2
\* largest backoff cap (max_backoff) explored in a direct get_country call
MaxBackoffCap == 3

\* ------------------------------------------------------- program constants
DEFAULT_BACKOFF_FACTOR == 1
DEFAULT_MAX_BACKOFF == 32
WIFI_DELAY == 5

\* --------------------------------------------------------- Python values
None == [kind |-> "None"]
\* a local variable that has not been assigned yet
Unbound == [kind |-> "unbound"]
JStr(chars) == [kind |-> "str", s |-> chars]
JNum(n) == [kind |-> "num", n |-> n]
JBool(b) == [kind |-> "bool", b |-> b]
JList(items) == [kind |-> "list", items |-> items]
JDict(map) == [kind |-> "dict", map |-> map]

EmptyMap == [k \in {} |-> None]

\* bool(v): Python truthiness, as used by `if not device_info`,
\* `if notifications` and `if not country`
Truthy(v) ==
    CASE v.kind = "None" -> FALSE
      [] v.kind = "str"  -> Len(v.s) # 0
      [] v.kind = "num"  -> v.n # 0
      [] v.kind = "bool" -> v.b
      [] v.kind = "list" -> Len(v.items) # 0
      [] v.kind = "dict" -> DOMAIN v.map # {}

\* the result of evaluating an expression: a value, or a raised exception
Ok(v) == [raised |-> FALSE, value |-> v]
Raise(e) == [raised |-> TRUE, exc |-> e]

\* ------------------------------------------------------------ str methods
UpperChars == <<"A","B","C","D","E","F","G","H","I","J","K","L","M",
                "N","O","P","Q","R","S","T","U","V","W","X","Y","Z">>
LowerChars == <<"a","b","c","d","e","f","g","h","i","j","k","l","m",
                "n","o","p","q","r","s","t","u","v","w","x","y","z">>

LowerChar(c) ==
    IF \E i \in 1..26 : UpperChars[i] = c
    THEN LowerChars[CHOOSE i \in 1..26 : UpperChars[i] = c]
    ELSE c

\* str.lower()
Lower(s) == [i \in 1..Len(s) |-> LowerChar(s[i])]

\* `sub in s` for two strings
Contains(sub, s) ==
    \E i \in 0..(Len(s) - Len(sub)) : SubSeq(s, i + 1, i + Len(sub)) = sub

\* ------------------------------------------------------- string literals
S_network_operator_name ==
    <<"n","e","t","w","o","r","k","_","o","p","e","r","a","t","o","r","_","n","a","m","e">>
S_packageName == <<"p","a","c","k","a","g","e","N","a","m","e">>
S_content == <<"c","o","n","t","e","n","t">>
S_country == <<"c","o","u","n","t","r","y">>
S_com_android_phone ==
    <<"c","o","m",".","a","n","d","r","o","i","d",".","p","h","o","n","e">>
S_no_service == <<"n","o"," ","s","e","r","v","i","c","e">>
S_unavailable == <<"u","n","a","v","a","i","l","a","b","l","e">>
S_IN == <<"I","N">>
S_empty == << >>

\* TelephonyConfig.TARGET_OPERATOR_NAME (default)
TARGET_OPERATOR_NAME == <<"I","N","D"," ","a","i","r","t","e","l">>

\* EXPECTED country literal of check_and_restart_wifi
EXPECTED_COUNTRY == S_IN

\* ------------------------------------------------ operator/network predicates
\* `key in v` for a str key
InOp(key, v) ==
    CASE v.kind = "dict" -> Ok(key \in DOMAIN v.map)
      [] v.kind = "list" -> Ok(\E i \in 1..Len(v.items) : v.items[i] = JStr(key))
      [] v.kind = "str"  -> Ok(Contains(key, v.s))
      [] OTHER           -> Raise("TypeError")

\* v[key] for a str key
IndexOp(v, key) ==
    CASE v.kind = "dict" ->
            IF key \in DOMAIN v.map THEN Ok(v.map[key]) ELSE Raise("KeyError")
      [] OTHER -> Raise("TypeError")

\* mutant: the operator name is compared without regard to case
is_network_operator_name_ignoring_case(info) ==
    IF ~Truthy(info) THEN Ok(FALSE)
    ELSE LET has == InOp(S_network_operator_name, info) IN
         IF has.raised THEN has
         ELSE IF ~has.value THEN Ok(FALSE)
         ELSE LET item == IndexOp(info, S_network_operator_name) IN
              IF item.raised THEN item
              ELSE Ok(/\ item.value.kind = "str"
                      /\ Lower(item.value.s) = Lower(TARGET_OPERATOR_NAME))

\* core.is_network_operator_name_as_desired
is_network_operator_name_as_desired(info) ==
    IF ~Truthy(info) THEN Ok(FALSE)
    ELSE LET has == InOp(S_network_operator_name, info) IN
         IF has.raised THEN has
         ELSE IF ~has.value THEN Ok(FALSE)
         ELSE LET item == IndexOp(info, S_network_operator_name) IN
              IF item.raised THEN item
              ELSE Ok(item.value = JStr(TARGET_OPERATOR_NAME))

\* the keys of a dict in iteration order (one key per dict in this model)
RECURSIVE DictKeys(_)
DictKeys(map) ==
    IF DOMAIN map = {} THEN << >>
    ELSE LET k == CHOOSE x \in DOMAIN map : TRUE IN
         <<JStr(k)>> \o DictKeys([y \in DOMAIN map \ {k} |-> map[y]])

\* iter(v): the items a `for` loop visits
IterOp(v) ==
    CASE v.kind = "list" -> Ok(v.items)
      [] v.kind = "dict" -> Ok(DictKeys(v.map))
      [] v.kind = "str"  -> Ok([i \in 1..Len(v.s) |-> JStr(<<v.s[i]>>)])
      [] OTHER           -> Raise("TypeError")

\* notification.get(key, default)
GetOp(v, key, default) ==
    IF v.kind = "dict"
    THEN Ok(IF key \in DOMAIN v.map THEN v.map[key] ELSE default)
    ELSE Raise("AttributeError")

\* value.lower()
LowerOp(v) ==
    IF v.kind = "str" THEN Ok(JStr(Lower(v.s))) ELSE Raise("AttributeError")

\* mutant: the content is searched as it is, without lower()
NotificationStepCaseSensitive(n) ==
    LET pkg == GetOp(n, S_packageName, None) IN
    IF pkg.raised THEN pkg
    ELSE IF pkg.value # JStr(S_com_android_phone) THEN Ok("next")
    ELSE LET c == GetOp(n, S_content, JStr(S_empty)) IN
         IF c.value.kind # "str" THEN Raise("AttributeError")
         ELSE IF Contains(S_no_service, c.value.s)
                 \/ Contains(S_unavailable, c.value.s)
              THEN Ok("down")
              ELSE Ok("next")

\* one iteration of the loop of is_network_up: "down" (return False),
\* "next" (go on with the next entry) or an exception
NotificationStep(n) ==
    LET pkg == GetOp(n, S_packageName, None) IN
    IF pkg.raised THEN pkg
    ELSE IF pkg.value # JStr(S_com_android_phone) THEN Ok("next")
    ELSE LET c == GetOp(n, S_content, JStr(S_empty)) IN
         LET content == LowerOp(c.value) IN
         IF content.raised THEN content
         ELSE IF Contains(S_no_service, content.value.s)
                 \/ Contains(S_unavailable, content.value.s)
              THEN Ok("down")
              ELSE Ok("next")

RECURSIVE NetworkUpFrom(_, _)
NetworkUpFrom(items, i) ==
    IF i > Len(items) THEN Ok(TRUE)
    ELSE LET step == NotificationStep(items[i]) IN
         IF step.raised THEN step
         ELSE IF step.value = "down" THEN Ok(FALSE)
         ELSE NetworkUpFrom(items, i + 1)

\* core.is_network_up
is_network_up(notifs) ==
    LET it == IterOp(notifs) IN
    IF it.raised THEN it ELSE NetworkUpFrom(it.value, 1)

\* the condition of the `if` of check_and_restart_wifi before `not` is applied:
\*   (operator_ok and is_network_up(notifications)) if notifications else True
\* mutant: absent or empty notifications count as unhealthy (`else False`)
HealthExpressionElseFalse(info, notifs) ==
    IF Truthy(notifs)
    THEN LET op == is_network_operator_name_as_desired(info) IN
         IF op.raised THEN op
         ELSE IF ~op.value THEN Ok(FALSE)
         ELSE is_network_up(notifs)
    ELSE Ok(FALSE)

HealthExpression(info, notifs) ==
    IF Truthy(notifs)
    THEN LET op == is_network_operator_name_as_desired(info) IN
         IF op.raised THEN op
         ELSE IF ~op.value THEN Ok(FALSE)
         ELSE is_network_up(notifs)
    ELSE Ok(TRUE)

\* ------------------------------------------------------- external commands
\* what a command printed: a JSON document or something json.loads rejects
Doc(v) == [json |-> TRUE, value |-> v]
NotJson == [json |-> FALSE, value |-> None]

\* json.loads
json_loads(doc) == IF doc.json THEN Ok(doc.value) ELSE Raise("JSONDecodeError")

\* how subprocess.run ended: the program could not be started, or it exited
CmdNotFound == [run |-> "notfound", code |-> 0, stdout |-> NotJson]
CmdExit(code, doc) == [run |-> "exit", code |-> code, stdout |-> doc]

\* mutant: the command runs without check=True, its exit status is ignored
get_telephony_device_info_unchecked(cmd) ==
    IF cmd.run = "notfound" THEN Raise("FileNotFoundError")
    ELSE LET parsed == json_loads(cmd.stdout) IN
         IF parsed.raised THEN Ok(None) ELSE parsed

\* core.get_telephony_device_info
get_telephony_device_info(cmd) ==
    IF cmd.run = "notfound" THEN Raise("FileNotFoundError")
    ELSE IF cmd.code # 0 THEN Ok(None)
    ELSE LET parsed == json_loads(cmd.stdout) IN
         IF parsed.raised THEN Ok(None) ELSE parsed

\* mutant: the command runs with check=True, a non-zero exit gives None
get_notifications_checked(cmd) ==
    IF cmd.run = "notfound" THEN Ok(None)
    ELSE IF cmd.code # 0 THEN Ok(None)
    ELSE LET parsed == json_loads(cmd.stdout) IN
         IF parsed.raised THEN Ok(None) ELSE parsed

\* core.get_notifications
get_notifications(cmd) ==
    IF cmd.run = "notfound" THEN Ok(None)
    ELSE LET parsed == json_loads(cmd.stdout) IN
         IF parsed.raised THEN Ok(None) ELSE parsed

\* ------------------------------------------------------------------ inputs
S_Other == <<"O","t","h","e","r">>
S_ind_airtel == <<"i","n","d"," ","a","i","r","t","e","l">>
S_data_state == <<"d","a","t","a","_","s","t","a","t","e">>
S_other_pkg == <<"c","o","m",".","x">>
S_No_service == <<"N","o"," ","s","e","r","v","i","c","e">>
S_4G_UNAVAILABLE == <<"4","G"," ","U","N","A","V","A","I","L","A","B","L","E">>
S_Ringing == <<"R","i","n","g","i","n","g">>
S_US == <<"U","S">>
S_in == <<"i","n">>

OperatorDict(name) == JDict(S_network_operator_name :> name)

\* documents the device-info command is made to print
DeviceInfoValues ==
    { OperatorDict(JStr(TARGET_OPERATOR_NAME)),
      OperatorDict(JStr(S_Other)),
      OperatorDict(JStr(S_ind_airtel)),
      JDict(S_data_state :> JStr(S_Other)),
      JDict(EmptyMap),
      JList(<<JStr(S_network_operator_name)>>),
      JNum(5) }

DeviceInfoCommands ==
    {CmdNotFound, CmdExit(0, NotJson),
     CmdExit(1, Doc(OperatorDict(JStr(TARGET_OPERATOR_NAME))))}
    \cup {CmdExit(0, Doc(v)) : v \in DeviceInfoValues}

Notification(pkg, content) ==
    JDict((S_packageName :> JStr(pkg)) @@ (S_content :> content))

\* entries the notification command is made to print
NotificationEntries ==
    { JDict(S_packageName :> JStr(S_com_android_phone)),
      Notification(S_com_android_phone, None),
      Notification(S_com_android_phone, JStr(S_No_service)),
      Notification(S_com_android_phone, JStr(S_4G_UNAVAILABLE)),
      Notification(S_com_android_phone, JStr(S_Ringing)),
      Notification(S_other_pkg, JStr(S_no_service)) }

NotificationLists ==
    UNION {[1..k -> NotificationEntries] : k \in 0..MaxNotifs}

NotificationValues ==
    {JList(l) : l \in NotificationLists}
    \cup {None, JDict(EmptyMap), JDict(S_packageName :> JStr(S_com_android_phone))}

NotificationCommands ==
    {CmdNotFound, CmdExit(0, NotJson), CmdExit(1, NotJson)}
    \cup {CmdExit(c, Doc(v)) : c \in {0, 1}, v \in NotificationValues}

\* how the ping of is_internet_connected ended
ProbeResults == {"ok", "nonzero", "notfound"}

\* how one requests.get / raise_for_status / json() ended
HttpFailures == {"Timeout", "ConnectionError", "HTTPError", "RequestException",
                 "JSONDecodeError"}
\* the failures caught by `except (Timeout, ConnectionError)`
TransientFailures == {"Timeout", "ConnectionError"}
\* bodies the geo-IP endpoint is made to answer with
HttpBodies ==
    { JDict(S_country :> JStr(S_IN)),
      JDict(S_country :> JStr(S_US)),
      JDict(S_country :> JStr(S_in)),
      JDict(S_country :> JStr(S_empty)),
      JDict(S_country :> None),
      JDict(EmptyMap),
      JList(<< >>) }

HttpResults ==
    {[ok |-> FALSE, exc |-> e, body |-> None] : e \in HttpFailures}
    \cup {[ok |-> TRUE, exc |-> "", body |-> b] : b \in HttpBodies}

\* how one termux-wifi-enable command ended
WifiResults == {"ok", "CalledProcessError", "TimeoutExpired", "notfound"}

\* ------------------------------------------------------------------- state
VARIABLES
    pc,             \* the statement about to run
    entry,          \* the function that was called from outside
    device_info,    \* local of check_and_restart_wifi
    notifications,  \* local of check_and_restart_wifi
    country,        \* local of check_and_restart_wifi: what get_country returned
    max_retries,    \* parameter of get_country
    backoff_factor, \* parameter of get_country
    max_backoff,    \* parameter of get_country
    retry_count,    \* local of get_country
    backoff_delay,  \* local of get_country
    wifi_ret,       \* what restart_wifi returned, None before it returns
    trace,          \* the external calls made so far, in order
    outcome,        \* the terminal state the call ended in
    ret,            \* what the called function returned or raised
    prev            \* outcome class and return value of an earlier cycle

vars == <<pc, entry, device_info, notifications, country, max_retries,
          backoff_factor, max_backoff, retry_count, backoff_delay, wifi_ret,
          trace, outcome, ret, prev>>

Exception(e) == [kind |-> "exception", exc |-> e]

Event(name, arg) == [ev |-> name, arg |-> arg]

Count(name) == Cardinality({i \in 1..Len(trace) : trace[i].ev = name})

Min(a, b) == IF a < b THEN a ELSE b

NoCycle == [outcome |-> "none", ret |-> Unbound]

InitLocals ==
    /\ device_info = Unbound
    /\ notifications = Unbound
    /\ country = Unbound
    /\ retry_count = 0
    /\ backoff_delay = 0
    /\ wifi_ret = Unbound
    /\ trace = << >>
    /\ outcome = "Running"
    /\ ret = Unbound

\* one decision cycle: check_and_restart_wifi() is called; it calls
\* get_country() with the defaults of its signature
Init ==
    /\ pc = "read_device_info"
    /\ entry = "check_and_restart_wifi"
    /\ max_retries \in 0..MaxRetriesBound
    /\ backoff_factor = DEFAULT_BACKOFF_FACTOR
    /\ max_backoff = DEFAULT_MAX_BACKOFF
    /\ prev = NoCycle
    /\ InitLocals

\* the function called from outside ends: it returns v, or raises
Finish(state, v) ==
    /\ pc' = "done"
    /\ outcome' = state
    /\ ret' = v

\* ------------------------------------------------- check_and_restart_wifi
ReadDeviceInfo ==
    /\ pc = "read_device_info"
    /\ \E cmd \in DeviceInfoCommands :
          LET r == get_telephony_device_info(cmd) IN
          /\ trace' = Append(trace, Event("termux-telephony-deviceinfo", 0))
          /\ IF r.raised
             THEN /\ Finish("Raised", Exception(r.exc))
                  /\ UNCHANGED device_info
             ELSE /\ device_info' = r.value
                  /\ pc' = "check_device_info"
                  /\ UNCHANGED <<outcome, ret>>
    /\ UNCHANGED <<prev, entry, notifications, country, max_retries, backoff_factor,
                   max_backoff, retry_count, backoff_delay, wifi_ret>>

\* mutant: the `return False` after "Failed to retrieve device info." is lost
CheckDeviceInfoNoReturn ==
    /\ pc = "check_device_info"
    /\ pc' = "read_notifications"
    /\ UNCHANGED <<prev, entry, device_info, notifications, country,
                   max_retries, backoff_factor, max_backoff, retry_count,
                   backoff_delay, wifi_ret, trace, outcome, ret>>

CheckDeviceInfo ==
    /\ pc = "check_device_info"
    /\ IF ~Truthy(device_info)
       THEN Finish("DeviceInfoUnknown", JBool(FALSE))
       ELSE /\ pc' = "read_notifications"
            /\ UNCHANGED <<outcome, ret>>
    /\ UNCHANGED <<prev, entry, device_info, notifications, country, max_retries,
                   backoff_factor, max_backoff, retry_count, backoff_delay,
                   wifi_ret, trace>>

ReadNotifications ==
    /\ pc = "read_notifications"
    /\ \E cmd \in NotificationCommands :
          notifications' = get_notifications(cmd).value
    /\ trace' = Append(trace, Event("termux-notification-list", 0))
    /\ pc' = "health_check"
    /\ UNCHANGED <<prev, entry, device_info, country, max_retries, backoff_factor,
                   max_backoff, retry_count, backoff_delay, wifi_ret, outcome,
                   ret>>

\* mutant: the healthy branch returns True
HealthCheckReturnsTrue ==
    /\ pc = "health_check"
    /\ LET healthy == HealthExpression(device_info, notifications) IN
       IF healthy.raised
       THEN /\ Finish("Raised", Exception(healthy.exc))
            /\ UNCHANGED trace
       ELSE IF healthy.value
       THEN /\ Finish("NoActionNeeded", JBool(TRUE))
            /\ UNCHANGED trace
       ELSE /\ pc' = "is_internet_connected"
            /\ trace' = Append(trace, Event("get_country", 0))
            /\ UNCHANGED <<outcome, ret>>
    /\ UNCHANGED <<prev, entry, device_info, notifications, country,
                   max_retries, backoff_factor, max_backoff, retry_count,
                   backoff_delay, wifi_ret>>

HealthCheck ==
    /\ pc = "health_check"
    /\ LET healthy == HealthExpression(device_info, notifications) IN
       IF healthy.raised
       THEN /\ Finish("Raised", Exception(healthy.exc))
            /\ UNCHANGED trace
       ELSE IF healthy.value
       THEN /\ Finish("NoActionNeeded", JBool(FALSE))
            /\ UNCHANGED trace
       ELSE /\ pc' = "is_internet_connected"
            /\ trace' = Append(trace, Event("get_country", 0))
            /\ UNCHANGED <<outcome, ret>>
    /\ UNCHANGED <<prev, entry, device_info, notifications, country, max_retries,
                   backoff_factor, max_backoff, retry_count, backoff_delay,
                   wifi_ret>>

CheckCountry ==
    /\ pc = "check_country"
    /\ IF ~Truthy(country)
       THEN /\ Finish("CountryUnresolved", JBool(FALSE))
            /\ UNCHANGED trace
       ELSE IF country = JStr(EXPECTED_COUNTRY)
       THEN /\ pc' = "wifi_disable"
            /\ trace' = Append(trace, Event("restart_wifi", WIFI_DELAY))
            /\ UNCHANGED <<outcome, ret>>
       ELSE /\ Finish("CountryMismatch", JBool(FALSE))
            /\ UNCHANGED trace
    /\ UNCHANGED <<prev, entry, device_info, notifications, country, max_retries,
                   backoff_factor, max_backoff, retry_count, backoff_delay,
                   wifi_ret>>

\* ------------------------------------------------------------- get_country
\* get_country returns v: to the decision cycle, or to the outside caller
GetCountryReturn(v) ==
    IF entry = "check_and_restart_wifi"
    THEN /\ country' = v
         /\ pc' = "check_country"
         /\ UNCHANGED <<outcome, ret>>
    ELSE /\ Finish("Returned", v)
         /\ UNCHANGED country

\* mutant: the result of is_internet_connected() is not looked at
IsInternetConnectedIgnored ==
    /\ pc = "is_internet_connected"
    /\ \E probe \in ProbeResults :
          /\ trace' = Append(trace, Event("ping", probe))
          /\ CASE probe \in {"ok", "nonzero"} ->
                     /\ retry_count' = 0
                     /\ backoff_delay' = backoff_factor
                     /\ pc' = "get_country_loop"
                     /\ UNCHANGED <<country, outcome, ret>>
               [] probe = "notfound" ->
                     /\ Finish("Raised", Exception("FileNotFoundError"))
                     /\ UNCHANGED <<country, retry_count, backoff_delay>>
    /\ UNCHANGED <<prev, entry, device_info, notifications, max_retries,
                   backoff_factor, max_backoff, wifi_ret>>

\* is_internet_connected() and the two assignments before the loop
IsInternetConnected ==
    /\ pc = "is_internet_connected"
    /\ \E probe \in ProbeResults :
          /\ trace' = Append(trace, Event("ping", probe))
          /\ CASE probe = "ok" ->
                     /\ retry_count' = 0
                     /\ backoff_delay' = backoff_factor
                     /\ pc' = "get_country_loop"
                     /\ UNCHANGED <<country, outcome, ret>>
               [] probe = "nonzero" ->
                     /\ GetCountryReturn(None)
                     /\ UNCHANGED <<retry_count, backoff_delay>>
               [] probe = "notfound" ->
                     /\ Finish("Raised", Exception("FileNotFoundError"))
                     /\ UNCHANGED <<country, retry_count, backoff_delay>>
    /\ UNCHANGED <<prev, entry, device_info, notifications, max_retries,
                   backoff_factor, max_backoff, wifi_ret>>

\* data.get("country") on the parsed body; an exception lands in
\* `except Exception` and makes get_country return None
CountryOfBody(body) ==
    LET c == GetOp(body, S_country, None) IN
    IF c.raised THEN None ELSE c.value

\* mutant: every failure of the request is retried with backoff
HttpAttemptRetryAll ==
    /\ pc = "get_country_loop"
    /\ retry_count < max_retries
    /\ \E http \in HttpResults :
          /\ trace' = Append(trace, Event("requests.get", http))
          /\ IF http.ok
             THEN GetCountryReturn(CountryOfBody(http.body))
             ELSE /\ pc' = "backoff"
                  /\ UNCHANGED <<country, outcome, ret>>
    /\ UNCHANGED <<prev, entry, device_info, notifications, max_retries,
                   backoff_factor, max_backoff, retry_count, backoff_delay,
                   wifi_ret>>

\* mutant: the loop condition is `retry_count <= max_retries`
HttpAttemptOffByOne ==
    /\ pc = "get_country_loop"
    /\ retry_count <= max_retries
    /\ \E http \in HttpResults :
          /\ trace' = Append(trace, Event("requests.get", http))
          /\ IF http.ok
             THEN GetCountryReturn(CountryOfBody(http.body))
             ELSE IF http.exc \in TransientFailures
             THEN /\ pc' = "backoff"
                  /\ UNCHANGED <<country, outcome, ret>>
             ELSE GetCountryReturn(None)
    /\ UNCHANGED <<prev, entry, device_info, notifications, max_retries,
                   backoff_factor, max_backoff, retry_count, backoff_delay,
                   wifi_ret>>

\* one pass of the while loop whose try block does not end in Timeout or
\* ConnectionError: the request, raise_for_status, json() and the return
HttpAttempt ==
    /\ pc = "get_country_loop"
    /\ retry_count < max_retries
    /\ \E http \in HttpResults :
          /\ trace' = Append(trace, Event("requests.get", http))
          /\ IF http.ok
             THEN GetCountryReturn(CountryOfBody(http.body))
             ELSE IF http.exc \in TransientFailures
             THEN /\ pc' = "backoff"
                  /\ UNCHANGED <<country, outcome, ret>>
             ELSE GetCountryReturn(None)
    /\ UNCHANGED <<prev, entry, device_info, notifications, max_retries,
                   backoff_factor, max_backoff, retry_count, backoff_delay,
                   wifi_ret>>

\* mutant: the handler retries at once, without time.sleep
BackoffNoSleep ==
    /\ pc = "backoff"
    /\ backoff_delay' = Min(backoff_delay * 2, max_backoff)
    /\ retry_count' = retry_count + 1
    /\ pc' = "get_country_loop"
    /\ UNCHANGED <<prev, entry, device_info, notifications, country,
                   max_retries, backoff_factor, max_backoff, wifi_ret, trace,
                   outcome, ret>>

\* the handler of (Timeout, ConnectionError)
Backoff ==
    /\ pc = "backoff"
    /\ trace' = Append(trace, Event("time.sleep", backoff_delay))
    /\ backoff_delay' = Min(backoff_delay * 2, max_backoff)
    /\ retry_count' = retry_count + 1
    /\ pc' = "get_country_loop"
    /\ UNCHANGED <<prev, entry, device_info, notifications, country, max_retries,
                   backoff_factor, max_backoff, wifi_ret, outcome, ret>>

\* the loop condition fails: "Max retries exceeded"
MaxRetriesExceeded ==
    /\ pc = "get_country_loop"
    /\ ~(retry_count < max_retries)
    /\ GetCountryReturn(None)
    /\ UNCHANGED <<prev, entry, device_info, notifications, max_retries,
                   backoff_factor, max_backoff, retry_count, backoff_delay,
                   wifi_ret, trace>>

\* ------------------------------------------------------------ restart_wifi
\* mutant: check_and_restart_wifi drops the result of restart_wifi and
\* returns True
RestartWifiReturnIgnored(b) ==
    /\ wifi_ret' = JBool(b)
    /\ Finish(IF entry = "check_and_restart_wifi" THEN "Restarted"
              ELSE "Returned",
              JBool(TRUE))

\* restart_wifi returns b; check_and_restart_wifi returns the same value
RestartWifiReturn(b) ==
    /\ wifi_ret' = JBool(b)
    /\ Finish(IF entry = "check_and_restart_wifi"
              THEN (IF b THEN "Restarted" ELSE "RestartFailed")
              ELSE "Returned",
              JBool(b))

RestartWifiRaise(e) ==
    /\ Finish("Raised", Exception(e))
    /\ UNCHANGED wifi_ret

\* mutant: the disable command runs without check=True, its failure is ignored
WifiDisableUnchecked ==
    /\ pc = "wifi_disable"
    /\ \E r \in WifiResults :
          /\ trace' = Append(trace, Event("termux-wifi-enable false", r))
          /\ CASE r \in {"ok", "CalledProcessError"} ->
                     /\ pc' = "wifi_delay"
                     /\ UNCHANGED <<wifi_ret, outcome, ret>>
               [] r = "TimeoutExpired" -> RestartWifiReturn(FALSE)
               [] r = "notfound" -> RestartWifiRaise("FileNotFoundError")
    /\ UNCHANGED <<prev, entry, device_info, notifications, country,
                   max_retries, backoff_factor, max_backoff, retry_count,
                   backoff_delay>>

WifiDisable ==
    /\ pc = "wifi_disable"
    /\ \E r \in WifiResults :
          /\ trace' = Append(trace, Event("termux-wifi-enable false", r))
          /\ CASE r = "ok" ->
                     /\ pc' = "wifi_delay"
                     /\ UNCHANGED <<wifi_ret, outcome, ret>>
               [] r \in {"CalledProcessError", "TimeoutExpired"} ->
                     RestartWifiReturn(FALSE)
               [] r = "notfound" -> RestartWifiRaise("FileNotFoundError")
    /\ UNCHANGED <<prev, entry, device_info, notifications, country, max_retries,
                   backoff_factor, max_backoff, retry_count, backoff_delay>>

WifiDelay ==
    /\ pc = "wifi_delay"
    /\ trace' = Append(trace, Event("time.sleep", WIFI_DELAY))
    /\ pc' = "wifi_enable"
    /\ UNCHANGED <<prev, entry, device_info, notifications, country, max_retries,
                   backoff_factor, max_backoff, retry_count, backoff_delay,
                   wifi_ret, outcome, ret>>

\* mutant: the enable command runs without check=True, its failure is ignored
WifiEnableUnchecked ==
    /\ pc = "wifi_enable"
    /\ \E r \in WifiResults :
          /\ trace' = Append(trace, Event("termux-wifi-enable true", r))
          /\ CASE r \in {"ok", "CalledProcessError"} -> RestartWifiReturn(TRUE)
               [] r = "TimeoutExpired" -> RestartWifiReturn(FALSE)
               [] r = "notfound" -> RestartWifiRaise("FileNotFoundError")
    /\ UNCHANGED <<prev, entry, device_info, notifications, country,
                   max_retries, backoff_factor, max_backoff, retry_count,
                   backoff_delay>>

WifiEnable ==
    /\ pc = "wifi_enable"
    /\ \E r \in WifiResults :
          /\ trace' = Append(trace, Event("termux-wifi-enable true", r))
          /\ CASE r = "ok" -> RestartWifiReturn(TRUE)
               [] r \in {"CalledProcessError", "TimeoutExpired"} ->
                     RestartWifiReturn(FALSE)
               [] r = "notfound" -> RestartWifiRaise("FileNotFoundError")
    /\ UNCHANGED <<prev, entry, device_info, notifications, country, max_retries,
                   backoff_factor, max_backoff, retry_count, backoff_delay>>

\* --------------------------------------------------------- specifications
Next ==
    \/ ReadDeviceInfo
    \/ CheckDeviceInfo
    \/ ReadNotifications
    \/ HealthCheck
    \/ IsInternetConnected
    \/ HttpAttempt
    \/ Backoff
    \/ MaxRetriesExceeded
    \/ CheckCountry
    \/ WifiDisable
    \/ WifiDelay
    \/ WifiEnable

Spec == Init /\ [][Next]_vars

\* the outcomes `prev` remembers
RememberedOutcomes ==
    {"NoActionNeeded", "CountryUnresolved", "CountryMismatch", "Restarted"}

\* the scheduler runs the command again: main() calls check_and_restart_wifi()
\* afresh; prev keeps the latest remembered outcome and the value returned
NextCycle ==
    /\ pc = "done"
    /\ entry = "check_and_restart_wifi"
    /\ prev' = IF outcome \in RememberedOutcomes
               THEN [outcome |-> outcome, ret |-> ret]
               ELSE prev
    /\ pc' = "read_device_info"
    /\ device_info' = Unbound
    /\ notifications' = Unbound
    /\ country' = Unbound
    /\ retry_count' = 0
    /\ backoff_delay' = 0
    /\ wifi_ret' = Unbound
    /\ trace' = << >>
    /\ outcome' = "Running"
    /\ ret' = Unbound
    /\ UNCHANGED <<entry, max_retries, backoff_factor, max_backoff>>

NextCycles == Next \/ NextCycle

\* decision cycles one after the other, as the scheduler runs them
SpecCycles == Init /\ [][NextCycles]_vars

\* get_country(max_retries, backoff_factor, max_backoff) called directly
InitGetCountry ==
    /\ pc = "is_internet_connected"
    /\ entry = "get_country"
    /\ max_retries \in 0..MaxRetriesBound
    /\ backoff_factor \in 1..MaxBackoffFactor
    /\ max_backoff \in 1..MaxBackoffCap
    /\ prev = NoCycle
    /\ InitLocals

NextGetCountry ==
    \/ IsInternetConnected
    \/ HttpAttempt
    \/ Backoff
    \/ MaxRetriesExceeded

SpecGetCountry == InitGetCountry /\ [][NextGetCountry]_vars

\* the same call on an interpreter that keeps running: a single thread whose
\* every blocking call (ping, request, sleep) comes back
FairSpecGetCountry == SpecGetCountry /\ WF_vars(NextGetCountry)

\* ---------------------------------------------- the functions called directly
\* arguments is_network_up is called with
IsNetworkUpEntries ==
    NotificationEntries
    \cup { JDict(S_packageName :> JStr(S_other_pkg)),
           JDict(S_content :> JStr(S_unavailable)),
           JStr(S_Ringing) }

IsNetworkUpArguments ==
    {JList(l) : l \in UNION {[1..k -> IsNetworkUpEntries] : k \in 0..MaxNotifs}}
    \cup {None}

\* arguments is_network_operator_name_as_desired is called with
OperatorNameArguments ==
    DeviceInfoValues
    \cup {None, OperatorDict(None), JList(<< >>), JNum(0),
          JStr(S_network_operator_name)}

\* how the device-info command ends when get_telephony_device_info is called
DeviceInfoCallCommands ==
    {CmdNotFound}
    \cup {CmdExit(c, d) : c \in {0, 1},
                          d \in {NotJson} \cup {Doc(v) : v \in DeviceInfoValues \cup {None}}}

InitCalls ==
    /\ pc = "call"
    /\ entry \in {"is_network_up", "is_network_operator_name_as_desired",
                   "get_notifications", "get_telephony_device_info"}
    /\ notifications \in IF entry = "is_network_up"
                          THEN IsNetworkUpArguments ELSE {Unbound}
    /\ device_info \in IF entry = "is_network_operator_name_as_desired"
                        THEN OperatorNameArguments ELSE {Unbound}
    /\ max_retries = 0
    /\ backoff_factor = DEFAULT_BACKOFF_FACTOR
    /\ max_backoff = DEFAULT_MAX_BACKOFF
    /\ prev = NoCycle
    /\ country = Unbound
    /\ retry_count = 0
    /\ backoff_delay = 0
    /\ wifi_ret = Unbound
    /\ trace = << >>
    /\ outcome = "Running"
    /\ ret = Unbound

\* the called function ends with the result r of its evaluation
FinishWith(r) ==
    IF r.raised
    THEN Finish("Raised", Exception(r.exc))
    ELSE Finish("Returned", r.value)

\* is_network_up(notifications)
CallIsNetworkUp ==
    /\ pc = "call"
    /\ entry = "is_network_up"
    /\ LET r == is_network_up(notifications) IN
       FinishWith(IF r.raised THEN r ELSE Ok(JBool(r.value)))
    /\ UNCHANGED <<prev, entry, device_info, notifications, country,
                   max_retries, backoff_factor, max_backoff, retry_count,
                   backoff_delay, wifi_ret, trace>>

\* is_network_operator_name_as_desired(device_info)
CallOperatorName ==
    /\ pc = "call"
    /\ entry = "is_network_operator_name_as_desired"
    /\ LET r == is_network_operator_name_as_desired(device_info) IN
       FinishWith(IF r.raised THEN r ELSE Ok(JBool(r.value)))
    /\ UNCHANGED <<prev, entry, device_info, notifications, country,
                   max_retries, backoff_factor, max_backoff, retry_count,
                   backoff_delay, wifi_ret, trace>>

\* get_notifications()
CallGetNotifications ==
    /\ pc = "call"
    /\ entry = "get_notifications"
    /\ \E cmd \in NotificationCommands :
          /\ trace' = Append(trace, Event("termux-notification-list", cmd))
          /\ FinishWith(get_notifications(cmd))
    /\ UNCHANGED <<prev, entry, device_info, notifications, country,
                   max_retries, backoff_factor, max_backoff, retry_count,
                   backoff_delay, wifi_ret>>

\* get_telephony_device_info()
CallGetTelephonyDeviceInfo ==
    /\ pc = "call"
    /\ entry = "get_telephony_device_info"
    /\ \E cmd \in DeviceInfoCallCommands :
          /\ trace' = Append(trace, Event("termux-telephony-deviceinfo", cmd))
          /\ FinishWith(get_telephony_device_info(cmd))
    /\ UNCHANGED <<prev, entry, device_info, notifications, country,
                   max_retries, backoff_factor, max_backoff, retry_count,
                   backoff_delay, wifi_ret>>

NextCalls ==
    \/ CallIsNetworkUp
    \/ CallOperatorName
    \/ CallGetNotifications
    \/ CallGetTelephonyDeviceInfo

SpecCalls == InitCalls /\ [][NextCalls]_vars

TypeOK ==
    /\ pc \in {"call", "read_device_info", "check_device_info", "read_notifications",
               "health_check", "is_internet_connected", "get_country_loop",
               "backoff", "check_country", "wifi_disable", "wifi_delay",
               "wifi_enable", "done"}
    /\ outcome \in {"Running", "Raised", "Returned", "DeviceInfoUnknown",
                    "NoActionNeeded", "CountryUnresolved", "CountryMismatch",
                    "Restarted", "RestartFailed"}
    /\ retry_count \in 0..max_retries
    /\ (pc = "done") = (outcome # "Running")

\* ------------------------------------------------------------------ claims
Done == pc = "done"

WifiCommands ==
    Count("termux-wifi-enable false") + Count("termux-wifi-enable true")

\* neither the remediator nor one of its commands has been called
NoWifi == Count("restart_wifi") = 0 /\ WifiCommands = 0

\* neither the resolver, its probe nor its HTTP request has been called
NoGeoIp ==
    Count("get_country") = 0 /\ Count("ping") = 0 /\ Count("requests.get") = 0

\* operator_matches(info, target) of the specification
OperatorMatches(info) ==
    LET op == is_network_operator_name_as_desired(info) IN
    ~op.raised /\ op.value

\* network_is_up(notifications) of the specification
NetworkIsUp(notifs) ==
    LET up == is_network_up(notifs) IN ~up.raised /\ up.value

\* "healthy" as section 4.7, step 3 defines it
SpecHealthy(info, notifs) ==
    OperatorMatches(info) /\ (notifs = None \/ NetworkIsUp(notifs))

\* a com.android.phone entry whose content, in any case, reports no service
IsDownEntry(n) ==
    /\ n.kind = "dict"
    /\ S_packageName \in DOMAIN n.map
    /\ n.map[S_packageName] = JStr(S_com_android_phone)
    /\ S_content \in DOMAIN n.map
    /\ n.map[S_content].kind = "str"
    /\ \/ Contains(S_no_service, Lower(n.map[S_content].s))
       \/ Contains(S_unavailable, Lower(n.map[S_content].s))

HasDownEntry(notifs) ==
    /\ notifs.kind = "list"
    /\ \E i \in 1..Len(notifs.items) : IsDownEntry(notifs.items[i])

\* a device info that names an operator other than the target
OtherOperator(info) ==
    /\ info.kind = "dict"
    /\ S_network_operator_name \in DOMAIN info.map
    /\ info.map[S_network_operator_name] # JStr(TARGET_OPERATOR_NAME)

\* C1: the remediator is invoked only after the resolver returned the
\* expected country; a cycle whose resolver returned Unknown ends in
\* CountryUnresolved, one whose resolver returned any other country ends in
\* CountryMismatch, and neither issues a Wi-Fi command.
C1_RemediatorOnlyForExpectedCountry ==
    /\ ~NoWifi => country = JStr(EXPECTED_COUNTRY)
    /\ (Done /\ country = None) => (outcome = "CountryUnresolved" /\ NoWifi)
    /\ (Done /\ country \notin {Unbound, None, JStr(EXPECTED_COUNTRY)})
          => (outcome = "CountryMismatch" /\ NoWifi)

\* C2: once the device info is present and the notifications are read, the
\* cycle ends in NoActionNeeded without calling the resolver exactly when
\* operator_matches AND (notifications absent OR network_is_up); in every
\* other case the resolver is called.
C2_HealthyIffOperatorAndNetwork ==
    (Done /\ notifications # Unbound) =>
        /\ (outcome = "NoActionNeeded" /\ NoGeoIp /\ NoWifi)
              <=> SpecHealthy(device_info, notifications)
        /\ ~SpecHealthy(device_info, notifications)
              => Count("get_country") = 1

\* C3: once the resolver has returned the expected country the remediator is
\* invoked exactly once, never more than once in a cycle, and the cycle ends
\* in Restarted iff it returned true and in RestartFailed iff it returned false.
C3_RemediatorOnceAndOutcome ==
    /\ Count("restart_wifi") <= 1
    /\ (country = JStr(EXPECTED_COUNTRY) /\ pc # "check_country")
          => Count("restart_wifi") = 1
    /\ (country = JStr(EXPECTED_COUNTRY) /\ Done)
          => /\ outcome = "Restarted" <=> wifi_ret = JBool(TRUE)
             /\ outcome = "RestartFailed" <=> wifi_ret = JBool(FALSE)
             /\ ret = JBool(TRUE) <=> wifi_ret = JBool(TRUE)

C3_Witness ==
    /\ Done /\ country = JStr(EXPECTED_COUNTRY)
    /\ outcome = "RestartFailed" /\ wifi_ret = JBool(FALSE)
    /\ Count("restart_wifi") = 1 /\ WifiCommands = 2

\* C4: with a device info naming another operator and the notification list
\* [], the resolver is consulted, and when it returns the expected country and
\* both Wi-Fi commands succeed the cycle ends in Restarted with the remediator
\* invoked once.
C4_OtherOperatorEmptyListRestarts ==
    (Done /\ OtherOperator(device_info) /\ notifications = JList(<< >>)) =>
        /\ Count("get_country") = 1
        /\ outcome # "NoActionNeeded"
        /\ (/\ country = JStr(EXPECTED_COUNTRY)
            /\ \E i \in 1..Len(trace) :
                  trace[i] = Event("termux-wifi-enable true", "ok"))
              => (outcome = "Restarted" /\ Count("restart_wifi") = 1)

\* C5: when the device-info reader yields Absent the cycle ends in
\* DeviceInfoUnknown, returning false, and nothing but the device-info command
\* is ever called: no notification read, probe, HTTP request or Wi-Fi command.
C5_AbsentDeviceInfoStops ==
    device_info = None =>
        /\ pc \in {"check_device_info", "done"}
        /\ trace = <<Event("termux-telephony-deviceinfo", 0)>>
        /\ Done => (outcome = "DeviceInfoUnknown" /\ ret = JBool(FALSE))

C5_Witness ==
    /\ Done /\ device_info = None /\ outcome = "DeviceInfoUnknown"
    /\ NoGeoIp /\ NoWifi

\* C6: with a device info matching the target operator and a notification
\* list holding a com.android.phone entry whose content contains "no service"
\* or "unavailable" in any case, the cycle calls the resolver and never ends in
\* NoActionNeeded.
C6_DownNotificationOverridesOperator ==
    (Done /\ HasDownEntry(notifications) /\ OperatorMatches(device_info)) =>
        /\ outcome # "NoActionNeeded"
        /\ Count("get_country") = 1

\* C7: with a device info matching the target operator and absent
\* notifications the cycle ends in NoActionNeeded, returning false, and no
\* probe, HTTP request or Wi-Fi command is issued.
C7_AbsentNotificationsHealthy ==
    (notifications = None /\ OperatorMatches(device_info)) =>
        /\ pc \in {"health_check", "done"}
        /\ NoGeoIp /\ NoWifi
        /\ Done => (outcome = "NoActionNeeded" /\ ret = JBool(FALSE))

C7_Witness ==
    /\ Done /\ notifications = None /\ OperatorMatches(device_info)
    /\ outcome = "NoActionNeeded" /\ Len(trace) = 2

\* C8: the decision cycle never raises: whatever the collaborators do, it ends
\* by returning a value.
C8_CycleNeverRaises ==
    Done => (outcome # "Raised" /\ ret.kind = "bool")

\* the outcome classes of RestartOutcome
OutcomeClass(o) ==
    CASE o = "Restarted" -> "restarted"
      [] o = "NoActionNeeded" -> "skipped-healthy"
      [] o \in {"CountryUnresolved", "CountryMismatch"} -> "skipped-unresolvable"
      [] OTHER -> "unclassified"

\* C9: two cycles that end in different outcome classes return different
\* values.
C9_ReturnValueSeparatesClasses ==
    (/\ Done /\ outcome \in RememberedOutcomes /\ prev # NoCycle
     /\ OutcomeClass(outcome) # OutcomeClass(prev.outcome))
        => ret # prev.ret

\* C9 as amended: the returned value is a boolean that is true exactly for
\* Restarted; NoActionNeeded, CountryUnresolved and CountryMismatch all
\* return false, so two cycles of different classes return different values
\* iff one of them ended in Restarted.
C9_ReturnValueSeparatesRestartedOnly ==
    (Done /\ outcome \in RememberedOutcomes) =>
        /\ ret = JBool(outcome = "Restarted")
        /\ (prev # NoCycle /\ OutcomeClass(outcome) # OutcomeClass(prev.outcome))
              => (ret # prev.ret
                    <=> (outcome = "Restarted" \/ prev.outcome = "Restarted"))

C9_Witness ==
    /\ Done /\ outcome = "CountryUnresolved"
    /\ prev.outcome = "NoActionNeeded" /\ ret = prev.ret

\* the HTTP attempts of a trace that failed transiently
TransientAttempts ==
    {i \in 1..Len(trace) :
        /\ trace[i].ev = "requests.get"
        /\ ~trace[i].arg.ok
        /\ trace[i].arg.exc \in TransientFailures}

\* the body of a successful answer holds a country string
BodyHasCountry(body) ==
    /\ body.kind = "dict"
    /\ S_country \in DOMAIN body.map
    /\ body.map[S_country].kind = "str"

\* C10: when get_country, called directly, ends with a successful answer
\* holding a country after N transient failures, then N < max_retries, it
\* returns that country, it made exactly N + 1 requests and N sleeps, and each
\* sleep lies between a failed attempt and the next attempt.
C10_RetriesThenSuccess ==
    (/\ Done /\ entry = "get_country" /\ Len(trace) > 0
     /\ trace[Len(trace)].ev = "requests.get"
     /\ trace[Len(trace)].arg.ok
     /\ BodyHasCountry(trace[Len(trace)].arg.body)) =>
        LET N == Cardinality(TransientAttempts) IN
        /\ N < max_retries
        /\ ret = trace[Len(trace)].arg.body.map[S_country]
        /\ Count("requests.get") = N + 1
        /\ Count("time.sleep") = N
        /\ Len(trace) = 2 * N + 2
        /\ \A i \in 1..N :
              /\ 2 * i \in TransientAttempts
              /\ trace[2 * i + 1].ev = "time.sleep"
              /\ trace[2 * i + 2].ev = "requests.get"

C10_Witness ==
    /\ Done /\ entry = "get_country"
    /\ ret = JStr(S_US)
    /\ Cardinality(TransientAttempts) = 2
    /\ Count("time.sleep") = 2 /\ Count("requests.get") = 3

\* the HTTP attempts of a trace that failed for good: an HTTP error status,
\* another request error, a body that is not JSON or not a JSON object
NonTransientAttempts ==
    {i \in 1..Len(trace) :
        /\ trace[i].ev = "requests.get"
        /\ \/ ~trace[i].arg.ok /\ trace[i].arg.exc \notin TransientFailures
           \/ trace[i].arg.ok /\ trace[i].arg.body.kind # "dict"}

\* C11: a non-transient failure of an HTTP attempt is the last thing
\* get_country does: it returns Unknown with no request and no sleep after it,
\* and when the first attempt fails so exactly one request was made.
C11_NonTransientAborts ==
    \A i \in NonTransientAttempts :
        /\ i = Len(trace)
        /\ Done /\ outcome = "Returned" /\ ret = None
        /\ Count("requests.get") = Cardinality(TransientAttempts) + 1
        /\ Count("time.sleep") = Cardinality(TransientAttempts)
        /\ i = 2 => Count("requests.get") = 1

C11_Witness ==
    /\ Done /\ entry = "get_country" /\ ret = None /\ max_retries = 3
    /\ Len(trace) = 4 /\ 4 \in NonTransientAttempts
    /\ trace[4].arg.exc = "HTTPError"

\* C12 (state part): get_country never makes more than max_retries requests;
\* when the probe succeeded and every attempt failed transiently it ends
\* after exactly max_retries requests, each followed by one sleep, and returns
\* Unknown; with max_retries = 0 that is no request at all.
C12_AtMostMaxRetries ==
    /\ Count("requests.get") <= max_retries
    /\ (/\ Done /\ trace[1].arg = "ok"
        /\ Cardinality(TransientAttempts) = Count("requests.get"))
          => /\ outcome = "Returned" /\ ret = None
             /\ Count("requests.get") = max_retries
             /\ Count("time.sleep") = max_retries
             /\ Len(trace) = 1 + 2 * max_retries
             /\ \A i \in 1..max_retries :
                   /\ 2 * i \in TransientAttempts
                   /\ trace[2 * i + 1].ev = "time.sleep"

\* C12: get_country terminates for every sequence of HTTP outcomes, within
\* the bounds of C12_AtMostMaxRetries.
C12_TerminatesWithinMaxRetries == []C12_AtMostMaxRetries /\ <>Done

C12_Witness ==
    /\ Done /\ entry = "get_country" /\ ret = None /\ max_retries = 3
    /\ trace[1].arg = "ok"
    /\ Count("requests.get") = 3 /\ Count("time.sleep") = 3
    /\ trace[Len(trace)].ev = "time.sleep"

\* C15: the connectivity probe returns false and never raises on every
\* failure, the ping command not being runnable included: get_country then
\* returns Unknown at once.
C15_ProbeNeverRaises ==
    (Done /\ trace[1].ev = "ping" /\ trace[1].arg # "ok") =>
        (outcome = "Returned" /\ ret = None /\ Len(trace) = 1)

\* C16: when the probe reports unreachable get_country returns Unknown at
\* once, with no HTTP request and no sleep, whatever max_retries is.
C16_UnreachableShortCircuits ==
    (Len(trace) > 0 /\ trace[1] = Event("ping", "nonzero")) =>
        /\ Done /\ outcome = "Returned" /\ ret = None
        /\ Count("requests.get") = 0 /\ Count("time.sleep") = 0

C16_Witness ==
    /\ Done /\ entry = "get_country" /\ max_retries = 3
    /\ trace = <<Event("ping", "nonzero")>> /\ ret = None

\* what restart_wifi has done so far: the events after its call
RestartWifiEvents ==
    IF Count("restart_wifi") = 0 THEN << >>
    ELSE LET k == CHOOSE i \in 1..Len(trace) : trace[i].ev = "restart_wifi" IN
         SubSeq(trace, k + 1, Len(trace))

\* a Wi-Fi command of this call exited non-zero or timed out
WifiCommandFailed ==
    \E i \in 1..Len(RestartWifiEvents) :
        /\ RestartWifiEvents[i].ev # "time.sleep"
        /\ RestartWifiEvents[i].arg \in {"CalledProcessError", "TimeoutExpired"}

BothWifiCommandsSucceeded ==
    /\ Len(RestartWifiEvents) = 3
    /\ RestartWifiEvents[1] = Event("termux-wifi-enable false", "ok")
    /\ RestartWifiEvents[3] = Event("termux-wifi-enable true", "ok")

\* C13: restart_wifi returns true exactly when both the disable and the enable
\* command succeeded; a non-zero exit or a timeout of either makes it return
\* false, and is not raised.
C13_TrueIffBothCommandsSucceed ==
    /\ wifi_ret = JBool(TRUE) <=> BothWifiCommandsSucceeded
    /\ WifiCommandFailed =>
          (Done /\ wifi_ret = JBool(FALSE) /\ outcome # "Raised")

C13_Witness ==
    /\ Done /\ wifi_ret = JBool(FALSE) /\ Len(RestartWifiEvents) = 3
    /\ RestartWifiEvents[3] = Event("termux-wifi-enable true", "TimeoutExpired")

\* C14: within one restart_wifi call the events are a prefix of disable,
\* delay, enable, each at most once; after a failed disable nothing follows,
\* and nothing follows the enable command, failed or not.
C14_DisableDelayEnableOrder ==
    LET ev == RestartWifiEvents IN
    /\ WifiCommands > 0 => Count("restart_wifi") = 1
    /\ Len(ev) <= 3
    /\ Len(ev) >= 1 => ev[1].ev = "termux-wifi-enable false"
    /\ (Len(ev) >= 1 /\ ev[1].arg # "ok") => (Len(ev) = 1 /\ Done)
    /\ Len(ev) >= 2 => ev[2] = Event("time.sleep", WIFI_DELAY)
    /\ Len(ev) = 3 => (ev[3].ev = "termux-wifi-enable true" /\ Done)

C14_Witness ==
    /\ Done /\ Len(RestartWifiEvents) = 1
    /\ RestartWifiEvents[1] = Event("termux-wifi-enable false", "CalledProcessError")
    /\ wifi_ret = JBool(FALSE)

\* a notification as the data model types it: a mapping whose packageName
\* and content, where present, are strings
IsNotification(n) ==
    /\ n.kind = "dict"
    /\ \A k \in DOMAIN n.map : n.map[k].kind = "str"

IsNotificationList(notifs) ==
    /\ notifs.kind = "list"
    /\ \A i \in 1..Len(notifs.items) : IsNotification(notifs.items[i])

IsPhoneEntry(n) ==
    /\ S_packageName \in DOMAIN n.map
    /\ n.map[S_packageName] = JStr(S_com_android_phone)

\* the lists holding the same entries in another order
Reorderings(items) ==
    {[i \in 1..Len(items) |-> items[p[i]]] : p \in Permutations(1..Len(items))}

\* C17: on a list of notifications is_network_up returns false exactly when
\* some com.android.phone entry has a content that contains, in any case,
\* "no service" or "unavailable"; so it is true for the empty list, for lists
\* without a com.android.phone entry and for com.android.phone entries
\* without content, and every reordering of the list gives the same result.
C17_NetworkUpIffNoDownEntry ==
    (Done /\ entry = "is_network_up" /\ IsNotificationList(notifications)) =>
        /\ outcome = "Returned"
        /\ ret = JBool(~HasDownEntry(notifications))
        /\ (\A i \in 1..Len(notifications.items) :
               \/ ~IsPhoneEntry(notifications.items[i])
               \/ S_content \notin DOMAIN notifications.items[i].map)
              => ret = JBool(TRUE)
        /\ \A l \in Reorderings(notifications.items) :
              is_network_up(JList(l)) = Ok(ret.b)

C17_Witness ==
    /\ Done /\ entry = "is_network_up" /\ ret = JBool(FALSE)
    /\ notifications =
          JList(<<JDict(S_packageName :> JStr(S_other_pkg)),
                  Notification(S_com_android_phone, JStr(S_4G_UNAVAILABLE))>>)

\* C18: is_network_operator_name_as_desired returns true exactly when the
\* device info is a mapping with a network_operator_name equal to the target,
\* case included; for an absent info, a missing field or any other value it
\* returns false and does not raise.
C18_OperatorMatchesIffExactName ==
    (/\ Done /\ entry = "is_network_operator_name_as_desired"
     /\ device_info.kind \in {"None", "dict"}) =>
        /\ outcome = "Returned"
        /\ ret = JBool(/\ device_info.kind = "dict"
                       /\ S_network_operator_name \in DOMAIN device_info.map
                       /\ device_info.map[S_network_operator_name]
                             = JStr(TARGET_OPERATOR_NAME))

C18_Witness ==
    /\ Done /\ entry = "is_network_operator_name_as_desired"
    /\ device_info = OperatorDict(JStr(S_ind_airtel))
    /\ ret = JBool(FALSE)

\* the command the called reader ran
ReaderCommand == trace[1].arg

\* C19: get_notifications never raises, returns whatever valid JSON the
\* command printed whatever its exit status, and returns Absent exactly when
\* the output is not valid JSON or the process could not be run.
C19_AbsentIffNotJsonOrNotRun ==
    (Done /\ entry = "get_notifications") =>
        /\ outcome = "Returned"
        /\ (ReaderCommand.run = "exit" /\ ReaderCommand.stdout.json)
              => ret = ReaderCommand.stdout.value
        /\ ret = None
              <=> (ReaderCommand.run = "notfound" \/ ~ReaderCommand.stdout.json)

\* C19 as amended: Absent is returned exactly when the output is not valid
\* JSON, is the JSON value null, or the process could not be run.
C19_AbsentIffNotJsonNullOrNotRun ==
    (Done /\ entry = "get_notifications") =>
        /\ outcome = "Returned"
        /\ (ReaderCommand.run = "exit" /\ ReaderCommand.stdout.json)
              => ret = ReaderCommand.stdout.value
        /\ ret = None
              <=> \/ ReaderCommand.run = "notfound"
                  \/ ~ReaderCommand.stdout.json
                  \/ ReaderCommand.stdout.value = None

C19_Witness ==
    /\ Done /\ entry = "get_notifications"
    /\ ReaderCommand.run = "exit" /\ ReaderCommand.code = 1
    /\ ReaderCommand.stdout.json
    /\ ret = JList(<<Notification(S_com_android_phone, JStr(S_No_service))>>)

\* C20: get_telephony_device_info returns the parsed document when the
\* command exits with status 0 and prints valid JSON, and returns Absent,
\* without raising, when the command exits non-zero or prints something that
\* is not JSON.
C20_DeviceInfoParsedOrAbsent ==
    (/\ Done /\ entry = "get_telephony_device_info"
     /\ ReaderCommand.run = "exit") =>
        /\ outcome = "Returned"
        /\ (ReaderCommand.code = 0 /\ ReaderCommand.stdout.json)
              => ret = ReaderCommand.stdout.value
        /\ (ReaderCommand.code # 0 \/ ~ReaderCommand.stdout.json)
              => ret = None

C20_Witness ==
    /\ Done /\ entry = "get_telephony_device_info"
    /\ ReaderCommand = CmdExit(1, Doc(OperatorDict(JStr(TARGET_OPERATOR_NAME))))
    /\ ret = None

\* the delays of the backoff sleeps of the call, in the order they happened
SleepDelays ==
    LET sleeps == SelectSeq(trace, LAMBDA e : e.ev = "time.sleep") IN
    [k \in 1..Len(sleeps) |-> sleeps[k].arg]

RECURSIVE TwoToThe(_)
TwoToThe(n) == IF n = 0 THEN 1 ELSE 2 * TwoToThe(n - 1)

\* C21: for every initial delay and every cap, the k-th backoff sleep of one
\* get_country call lasts min(initial * 2^(k-1), cap), the delays never
\* decrease from one sleep to the next, and no sleep is longer than the cap.
C21_BackoffDoublesUpToCap ==
    entry = "get_country" =>
        /\ \A k \in 1..Len(SleepDelays) :
              /\ SleepDelays[k] = Min(backoff_factor * TwoToThe(k - 1), max_backoff)
              /\ SleepDelays[k] <= max_backoff
        /\ \A k \in 1..(Len(SleepDelays) - 1) : SleepDelays[k] <= SleepDelays[k + 1]

C23_DeviceInfoUnknownOnlyWhenAbsent ==
    /\ (Done /\ outcome = "DeviceInfoUnknown") => device_info = None
    /\ (Done /\ device_info.kind = "dict")
          => Count("termux-notification-list") = 1

====
